---- MODULE Spec2Model ----
(***************************************************************************)
(* Model of the deyecloud2 data-acquisition coordinator                    *)
(* (custom_components/deyecloud2): the retry wrappers, the token cache,    *)
(* the two fetch paths with their payload conversion, the config flow and  *)
(* the setup of the coordinator and its platforms (Spec); and the pure     *)
(* conversion functions called on bounded sets of arguments (SpecFn).      *)
(*                                                                         *)
(* Python strings are sequences of one-character strings; None is a        *)
(* tagged value; dictionaries are functions.                               *)
(***************************************************************************)
EXTENDS Integers, Sequences, FiniteSets, TLC

(***************************************************************************)
(* Program constants                                                       *)
(***************************************************************************)
\* self._max_retries = 3
max_retries == 3
\* timedelta(hours=1), in minutes
TokenTTLMinutes == 60

(***************************************************************************)
(* Bounds of the model                                                     *)
(***************************************************************************)
\* the clock advances in steps of ClockStep minutes, up to MaxTime
ClockStep == 30
MaxTime == 60

MODE_API == "api"
MODE_DEYE_DIRECT == "deye_direct"

(***************************************************************************)
(* Strings                                                                 *)
(***************************************************************************)
\* the letters of Latin-1 that str.lower() changes, and what it makes of them
UpperLetters == <<"A","B","C","D","E","F","G","H","I","J","K","L","M",
                  "N","O","P","Q","R","S","T","U","V","W","X","Y","Z",
                  "À","Á","Â","Ã","Ä","Å","Æ","Ç","È","É","Ê","Ë","Ì",
                  "Í","Î","Ï","Ð","Ñ","Ò","Ó","Ô","Õ","Ö","Ø","Ù","Ú",
                  "Û","Ü","Ý","Þ">>
LowerLetters == <<"a","b","c","d","e","f","g","h","i","j","k","l","m",
                  "n","o","p","q","r","s","t","u","v","w","x","y","z",
                  "à","á","â","ã","ä","å","æ","ç","è","é","ê","ë","ì",
                  "í","î","ï","ð","ñ","ò","ó","ô","õ","ö","ø","ù","ú",
                  "û","ü","ý","þ">>
Digits == <<"0","1","2","3","4","5","6","7","8","9">>

\* The characters of the model are those of Latin-1.
\* characters str.strip() removes (str.isspace): space, \t, \n, \r, \f, and
\* the code points 0B, 1C, 1D, 1E, 1F, 85 and A0
Whitespace == {" ", "\t", "\n", "\r", "\f", "", "", "", "", "", "", " "}
\* characters str.splitlines() breaks on: \n, \r, \f, and the code points
\* 0B, 1C, 1D, 1E and 85
LineBreaks == {"\n", "\r", "\f", "", "", "", "", ""}

IsDigit(c) == \E i \in 1..10 : Digits[i] = c
DigitVal(c) == (CHOOSE i \in 1..10 : Digits[i] = c) - 1

\* str.lower() on one character
LowerChar(c) ==
    IF \E i \in 1..Len(UpperLetters) : UpperLetters[i] = c
    THEN LowerLetters[CHOOSE i \in 1..Len(UpperLetters) : UpperLetters[i] = c]
    ELSE c

\* str.lower()
Lower(s) == [i \in 1..Len(s) |-> LowerChar(s[i])]

\* s without the characters of chars at its two ends
StripOf(s, chars) ==
    LET RECURSIVE LStrip(_)
        LStrip(x) ==
            IF x = <<>> THEN <<>>
            ELSE IF x[1] \in chars THEN LStrip(Tail(x)) ELSE x
        RECURSIVE RStrip(_)
        RStrip(x) ==
            IF x = <<>> THEN <<>>
            ELSE IF x[Len(x)] \in chars THEN RStrip(SubSeq(x, 1, Len(x) - 1)) ELSE x
    IN  RStrip(LStrip(s))

\* str.strip()
Strip(s) == StripOf(s, Whitespace)

\* the text int() and float() read: they skip space, \t, \n, \r, \f and the
\* code points 0B, 85 and A0 around the number, and not 1C, 1D, 1E, 1F
NumberStrip(s) == StripOf(s, Whitespace \ {"", "", "", ""})

\* ch in s
Contains(s, ch) == \E i \in 1..Len(s) : s[i] = ch

\* str.split(sep) for a one-character separator: the fragments, empty ones kept
RECURSIVE SplitOn(_, _, _)
SplitOn(s, sep, cur) ==
    IF s = <<>> THEN <<cur>>
    ELSE IF s[1] = sep THEN <<cur>> \o SplitOn(Tail(s), sep, <<>>)
    ELSE SplitOn(Tail(s), sep, Append(cur, s[1]))

Split(s, sep) == SplitOn(s, sep, <<>>)

\* str.splitlines(): "\r\n" is one break, no empty last line after a final break
RECURSIVE SplitLinesOn(_, _)
SplitLinesOn(s, cur) ==
    IF s = <<>> THEN (IF cur = <<>> THEN <<>> ELSE <<cur>>)
    ELSE IF s[1] = "\r" /\ Len(s) >= 2 /\ s[2] = "\n"
         THEN <<cur>> \o SplitLinesOn(Tail(Tail(s)), <<>>)
    ELSE IF s[1] \in LineBreaks THEN <<cur>> \o SplitLinesOn(Tail(s), <<>>)
    ELSE SplitLinesOn(Tail(s), Append(cur, s[1]))

SplitLines(s) == SplitLinesOn(s, <<>>)

\* [p for p in parts if p != ""]
RECURSIVE NonEmpty(_)
NonEmpty(parts) ==
    IF parts = <<>> THEN <<>>
    ELSE IF Head(parts) = <<>> THEN NonEmpty(Tail(parts))
    ELSE <<Head(parts)>> \o NonEmpty(Tail(parts))

(***************************************************************************)
(* normalize_key                                                           *)
(***************************************************************************)
ReplacedChars == {" ", "/", "-", "(", ")"}

\* for ch in [" ", "/", "-", "(", ")"]: key = key.replace(ch, "_")
ReplacePunct(s) == [i \in 1..Len(s) |-> IF s[i] \in ReplacedChars THEN "_" ELSE s[i]]

\* "__" in key
HasDouble(s) == \E i \in 1..(Len(s) - 1) : s[i] = "_" /\ s[i + 1] = "_"

\* key.replace("__", "_"): one left-to-right pass over non-overlapping pairs
RECURSIVE ReplaceDouble(_)
ReplaceDouble(s) ==
    IF Len(s) < 2 THEN s
    ELSE IF s[1] = "_" /\ s[2] = "_" THEN <<"_">> \o ReplaceDouble(Tail(Tail(s)))
    ELSE <<s[1]>> \o ReplaceDouble(Tail(s))

\* mutant: a single replace("__", "_") instead of the loop
Collapse_OnePass(s) == ReplaceDouble(s)

\* while "__" in key: key = key.replace("__", "_")
RECURSIVE Collapse(_)
Collapse(s) == IF HasDouble(s) THEN Collapse(ReplaceDouble(s)) ELSE s

normalize_key(name) == Collapse(ReplacePunct(Lower(Strip(name))))

(***************************************************************************)
(* Values of readings: None, bool, int, float (a reduced fraction n/d),    *)
(* str                                                                     *)
(***************************************************************************)
PyNone == [t |-> "none", n |-> 0, d |-> 1, s |-> <<>>]
PyBool(b) == [t |-> "bool", n |-> IF b THEN 1 ELSE 0, d |-> 1, s |-> <<>>]
PyInt(k) == [t |-> "int", n |-> k, d |-> 1, s |-> <<>>]
PyStr(txt) == [t |-> "str", n |-> 0, d |-> 1, s |-> txt]

Abs(k) == IF k < 0 THEN -k ELSE k

RECURSIVE Gcd(_, _)
Gcd(a, b) == IF b = 0 THEN a ELSE Gcd(b, a % b)

RECURSIVE Pow10(_)
Pow10(k) == IF k <= 0 THEN 1 ELSE 10 * Pow10(k - 1)

\* float("nan"), and float("inf") or float("-inf") for sign 1 or -1: the JSON
\* literals NaN, Infinity and -Infinity
PyNaN == [t |-> "float", n |-> 0, d |-> 0, s |-> <<>>]
PyInf(sign) == [t |-> "float", n |-> sign, d |-> 0, s |-> <<>>]

PyFloat(num, den) ==
    LET g == Gcd(Abs(num), den)
    IN  [t |-> "float", n |-> num \div g, d |-> den \div g, s |-> <<>>]

RECURSIVE DigitsValue(_)
DigitsValue(s) ==
    IF s = <<>> THEN 0 ELSE 10 * DigitsValue(SubSeq(s, 1, Len(s) - 1)) + DigitVal(s[Len(s)])

HasSign(s) == s # <<>> /\ s[1] \in {"+", "-"}
Unsigned(s) == IF HasSign(s) THEN Tail(s) ELSE s
SignOf(s) == IF s # <<>> /\ s[1] = "-" THEN -1 ELSE 1

\* digits, with single underscores allowed between two digits ("1_000")
GroupedDigits(s) ==
    /\ s # <<>>
    /\ \A i \in 1..Len(s) : IsDigit(s[i]) \/ s[i] = "_"
    /\ IsDigit(s[1]) /\ IsDigit(s[Len(s)])
    /\ ~HasDouble(s)

RECURSIVE DropUnderscores(_)
DropUnderscores(s) ==
    IF s = <<>> THEN <<>>
    ELSE IF s[1] = "_" THEN DropUnderscores(Tail(s))
    ELSE <<s[1]>> \o DropUnderscores(Tail(s))

\* int(text) succeeds: surrounding whitespace, an optional sign, decimal digits
IntParses(text) == GroupedDigits(Unsigned(NumberStrip(text)))

IntValue(text) ==
    SignOf(NumberStrip(text)) * DigitsValue(DropUnderscores(Unsigned(NumberStrip(text))))

\* float(text): [sign] (digits [. digits] | . digits) [e [sign] digits]
FloatFields(text) ==
    LET b == Lower(Unsigned(NumberStrip(text)))
        ep == Split(b, "e")
        mp == Split(ep[1], ".")
    IN  [nexp |-> Len(ep), nmant |-> Len(mp),
         ip |-> mp[1],
         fp |-> IF Len(mp) >= 2 THEN mp[2] ELSE <<>>,
         ex |-> IF Len(ep) >= 2 THEN ep[2] ELSE <<>>]

FloatParses(text) ==
    LET f == FloatFields(text)
    IN  /\ f.nexp <= 2
        /\ f.nmant <= 2
        /\ f.ip = <<>> \/ GroupedDigits(f.ip)
        /\ f.fp = <<>> \/ GroupedDigits(f.fp)
        /\ Len(f.ip) + Len(f.fp) >= 1
        /\ f.nexp = 2 => GroupedDigits(Unsigned(f.ex))

FloatValue(text) ==
    LET f == FloatFields(text)
        ip == DropUnderscores(f.ip)
        fp == DropUnderscores(f.fp)
        m == SignOf(NumberStrip(text)) * DigitsValue(ip \o fp)
        e == (IF f.nexp = 2
              THEN SignOf(f.ex) * DigitsValue(DropUnderscores(Unsigned(f.ex)))
              ELSE 0)
             - Len(fp)
    IN  IF e >= 0 THEN PyFloat(m * Pow10(e), 1) ELSE PyFloat(m, Pow10(-e))

RECURSIVE NatToStr(_)
NatToStr(k) ==
    IF k < 10 THEN <<Digits[k + 1]>> ELSE NatToStr(k \div 10) \o <<Digits[(k % 10) + 1]>>

\* str(value) of a value the cloud API supplies (None, bool, int, float or
\* str); a float prints its shortest decimal form, with an exponent below 1e-4
StrOf(v) ==
    LET a == Abs(v.n)
        sign == IF v.n < 0 THEN <<"-">> ELSE <<>>
        RECURSIVE Places(_)
        Places(k) == IF Pow10(k) % v.d = 0 THEN k ELSE Places(k + 1)
        RECURSIVE Pad(_, _)
        Pad(txt, w) == IF Len(txt) >= w THEN txt ELSE Pad(<<"0">> \o txt, w)
        FloatStr ==
            LET k == Places(0)
                m == NatToStr(a * (Pow10(k) \div v.d))
            IN  IF v.d = 1 THEN sign \o NatToStr(a) \o <<".", "0">>
                ELSE IF a <= (v.d - 1) \div 10000
                THEN sign \o <<m[1]>> \o (IF Len(m) > 1 THEN <<".">> \o Tail(m) ELSE <<>>)
                          \o <<"e", "-">> \o Pad(NatToStr(k - Len(m) + 1), 2)
                ELSE sign \o NatToStr(a \div v.d) \o <<".">>
                          \o Pad(NatToStr((a % v.d) * (Pow10(k) \div v.d)), k)
    IN  CASE v.t = "str" -> v.s
          [] v.t = "int" -> sign \o NatToStr(a)
          [] v.t = "bool" -> IF v.n = 1 THEN <<"T","r","u","e">> ELSE <<"F","a","l","s","e">>
          [] v.t = "float" /\ v.d = 0 ->
                IF v.n = 0 THEN <<"n","a","n">> ELSE sign \o <<"i","n","f">>
          [] v.t = "float" -> FloatStr
          [] OTHER -> <<"N","o","n","e">>

CloudSentinels == { <<"n","a","n">>, <<"i","n","f">>, <<"-","i","n","f">>, <<"n","u","l","l">> }
TextSentinels == { <<"n","a","n">>, <<"i","n","f">>, <<"-","i","n","f">> }

\* _convert_deye_response: the conversion of one item's value
ConvertCloudValue(value) ==
    IF value.t = "none" \/ Lower(StrOf(value)) \in CloudSentinels THEN PyNone
    ELSE IF value.t \in {"int", "float", "bool"} THEN value
    ELSE IF Contains(StrOf(value), ".") \/ Contains(Lower(StrOf(value)), "e")
         THEN (IF FloatParses(value.s) THEN FloatValue(value.s) ELSE PyStr(StrOf(value)))
    ELSE (IF IntParses(value.s) THEN PyInt(IntValue(value.s)) ELSE PyStr(StrOf(value)))

\* parse_deyecloud_text: the numeric cast of one line's value
ConvertTextValue(value_str) ==
    IF Lower(value_str) \in TextSentinels THEN PyNone
    ELSE IF Contains(value_str, ".") \/ Contains(Lower(value_str), "e")
         THEN (IF FloatParses(value_str) THEN FloatValue(value_str) ELSE PyStr(value_str))
    ELSE (IF IntParses(value_str) THEN PyInt(IntValue(value_str)) ELSE PyStr(value_str))

(***************************************************************************)
(* Snapshots: dict[str, dict], a function from the normalized key to the   *)
(* reading {"name", "value", "unit"}                                       *)
(***************************************************************************)
EmptyDict == [k \in {} |-> PyNone]

\* a write that keeps the reading of a key that is already present
DictSet_KeepFirst(data, key, reading) ==
    [k \in (DOMAIN data) \cup {key} |-> IF k \in DOMAIN data THEN data[k] ELSE reading]

\* data[key] = reading
DictSet(data, key, reading) ==
    [k \in (DOMAIN data) \cup {key} |-> IF k = key THEN reading ELSE data[k]]

Reading(name, value, unit) == [name |-> name, value |-> value, unit |-> unit]

\* an absent key of a JSON object
Missing == [t |-> "missing", n |-> 0, d |-> 1, s |-> <<>>]

\* dict.get(key, default)
GetOr(field, default) == IF field.t = "missing" THEN default ELSE field

\* not x: None, an absent key read with a falsy default, "", 0, 0.0 or False
Falsy(v) ==
    \/ v.t \in {"none", "missing"}
    \/ (v.t = "str" /\ v.s = <<>>)
    \/ (v.t \in {"int", "bool", "float"} /\ v.n = 0 /\ v.d = 1)

KeyDeviceOnline == <<"d","e","v","i","c","e","_","o","n","l","i","n","e">>
KeyLastUpdate == <<"l","a","s","t","_","u","p","d","a","t","e">>
NameDeviceOnline == <<"D","e","v","i","c","e"," ","O","n","l","i","n","e">>
NameLastUpdate == <<"L","a","s","t"," ","U","p","d","a","t","e">>

\* datetime.now().isoformat(): the text of the clock reading (minutes)
IsoFormat(now) == PyStr(NatToStr(now))

\* normalize_key(key_name) raises AttributeError: a truthy key that is not a
\* str (a number, True) has no strip()
KeyRaises(key_name) == ~Falsy(key_name) /\ key_name.t # "str"

\* _convert_deye_response: the loop over device_data["dataList"]; the items
\* whose key raises are left to ConvertRaises
RECURSIVE ConvertItems(_, _)
ConvertItems(items, data) ==
    IF items = <<>> THEN data
    ELSE LET item == Head(items)
             key_name == GetOr(item.key, PyStr(<<>>))
             value == GetOr(item.value, PyNone)
             unit == GetOr(item.unit, PyStr(<<>>))
         IN  IF Falsy(key_name) \/ KeyRaises(key_name) THEN ConvertItems(Tail(items), data)
             ELSE ConvertItems(Tail(items),
                     DictSet(data, normalize_key(key_name.s),
                             Reading(key_name.s, ConvertCloudValue(value), unit)))

\* mutant: a reading that an item has written is not replaced
AddDeviceStatus_KeepItems(data, now) ==
    DictSet_KeepFirst(
        DictSet_KeepFirst(data, KeyDeviceOnline, Reading(NameDeviceOnline, PyBool(TRUE), PyNone)),
        KeyLastUpdate, Reading(NameLastUpdate, IsoFormat(now), PyNone))

\* _convert_deye_response: device_online and last_update, added after the loop
AddDeviceStatus(data, now) ==
    DictSet(DictSet(data, KeyDeviceOnline, Reading(NameDeviceOnline, PyBool(TRUE), PyNone)),
            KeyLastUpdate, Reading(NameLastUpdate, IsoFormat(now), PyNone))

\* not api_data.get("deviceDataList")
NoDeviceData(api_data) == api_data.ddlKind \in {"missing", "null"} \/ api_data.ddl = <<>>

\* not device_data.get("dataList")
NoDataList(device_data) == device_data.dlKind \in {"missing", "null"} \/ device_data.dl = <<>>

\* _convert_deye_response raises AttributeError: the loop reaches an item
\* whose key makes normalize_key raise
ConvertRaises(api_data) ==
    /\ ~NoDeviceData(api_data)
    /\ ~NoDataList(api_data.ddl[1])
    /\ \E i \in 1..Len(api_data.ddl[1].dl) :
          KeyRaises(GetOr(api_data.ddl[1].dl[i].key, PyStr(<<>>)))

\* _convert_deye_response: the dict it returns, or the exception it raises
convert_deye_response(api_data, now) ==
    IF NoDeviceData(api_data) THEN EmptyDict
    ELSE IF NoDataList(api_data.ddl[1]) THEN EmptyDict
    ELSE IF ConvertRaises(api_data) THEN [raises |-> "AttributeError"]
    ELSE AddDeviceStatus(ConvertItems(api_data.ddl[1].dl, EmptyDict), now)

\* the keys of a dict in the order of their first assignment (dict order),
\* from the keys in the order they were assigned
RECURSIVE InsertionOrder(_, _)
InsertionOrder(assigned, seen) ==
    IF assigned = <<>> THEN <<>>
    ELSE IF Head(assigned) \in seen THEN InsertionOrder(Tail(assigned), seen)
    ELSE <<Head(assigned)>> \o InsertionOrder(Tail(assigned), seen \cup {Head(assigned)})

\* the keys of the dict _convert_deye_response returns, in dict order
CloudKeyOrder(api_data) ==
    LET RECURSIVE Assigned(_)
        Assigned(items) ==
            IF items = <<>> THEN <<KeyDeviceOnline, KeyLastUpdate>>
            ELSE LET key_name == GetOr(Head(items).key, PyStr(<<>>))
                 IN  (IF Falsy(key_name) THEN <<>> ELSE <<normalize_key(key_name.s)>>)
                     \o Assigned(Tail(items))
    IN  IF NoDeviceData(api_data) THEN <<>>
        ELSE IF NoDataList(api_data.ddl[1]) THEN <<>>
        ELSE InsertionOrder(Assigned(api_data.ddl[1].dl), {})

\* a line that gives no reading
NoFields == [ok |-> FALSE, name |-> <<>>, value_str |-> <<>>, unit |-> PyNone]

\* mutant: a line with a name only is read as a reading with an empty value
LineFields_Lenient(parts) ==
    IF Len(parts) < 1 THEN NoFields
    ELSE [ok |-> TRUE,
          name |-> Strip(parts[1]),
          value_str |-> IF Len(parts) >= 2 THEN Strip(parts[2]) ELSE <<>>,
          unit |-> IF Len(parts) >= 3 THEN PyStr(Strip(parts[3])) ELSE PyNone]

\* parse_deyecloud_text: if len(parts) < 2: continue; name, value_str, unit
LineFields(parts) ==
    IF Len(parts) < 2 THEN NoFields
    ELSE [ok |-> TRUE,
          name |-> Strip(parts[1]),
          value_str |-> Strip(parts[2]),
          unit |-> IF Len(parts) >= 3 THEN PyStr(Strip(parts[3])) ELSE PyNone]

\* parse_deyecloud_text: the loop over raw_text.splitlines()
RECURSIVE ParseLines(_, _)
ParseLines(lines, data) ==
    IF lines = <<>> THEN data
    ELSE LET line == Strip(Head(lines))
             f == LineFields(NonEmpty(Split(line, "\t")))
         IN  IF line = <<>> \/ ~f.ok THEN ParseLines(Tail(lines), data)
             ELSE ParseLines(Tail(lines),
                     DictSet(data, normalize_key(f.name),
                             Reading(f.name, ConvertTextValue(f.value_str), f.unit)))

parse_deyecloud_text(raw_text) == ParseLines(SplitLines(raw_text), EmptyDict)

\* the keys of the dict parse_deyecloud_text returns, in dict order
TextKeyOrder(raw_text) ==
    LET RECURSIVE Assigned(_)
        Assigned(lines) ==
            IF lines = <<>> THEN <<>>
            ELSE LET line == Strip(Head(lines))
                     f == LineFields(NonEmpty(Split(line, "\t")))
                 IN  (IF line = <<>> \/ ~f.ok THEN <<>> ELSE <<normalize_key(f.name)>>)
                     \o Assigned(Tail(lines))
    IN  InsertionOrder(Assigned(SplitLines(raw_text)), {})

(***************************************************************************)
(* Exceptions.  cls is the class of the exception object, site the place   *)
(* that raised it, cause the class of the exception it was raised from,    *)
(* origin what went wrong, n the fetch invocation of the cycle it belongs  *)
(* to.                                                                     *)
(***************************************************************************)
Exc(cls, site, cause, origin, n) ==
    [cls |-> cls, site |-> site, cause |-> cause, origin |-> origin, n |-> n]

\* last_exception = None
NoException == Exc("none", "none", "none", "none", 0)

\* raise UpdateFailed(err) from err, in _update_from_deye
WrapDeye(err) == Exc("UpdateFailed", "_update_from_deye", err.cls, err.origin, err.n)

\* the exception raised to the caller of _async_update_data
NoRaise == [cls |-> "none", wraps |-> NoException]
\* raise UpdateFailed(last_exception) from last_exception
TerminalApi(last) == [cls |-> "UpdateFailed", wraps |-> last]
\* raise UpdateFailed(f"Failed to update after ... attempts: {last_exception}") from last_exception
TerminalDeye(last) == [cls |-> "UpdateFailed", wraps |-> last]

(***************************************************************************)
(* Token cache values                                                      *)
(***************************************************************************)
TokNone == [t |-> "none", s |-> ""]
TokStr(x) == [t |-> "str", s |-> x]
\* the truth value of self._access_token
TokTruthy(tok) == tok.t = "str" /\ tok.s # ""

TimeNone == [t |-> "none", at |-> 0]
TimeAt(m) == [t |-> "time", at |-> m]

(***************************************************************************)
(* Responses of the three HTTP calls.  kind is "http" (a response with a   *)
(* status), "client_error" (aiohttp.ClientError) or "timeout"              *)
(* (asyncio.TimeoutError, the total timeout of 20 s).                      *)
(***************************************************************************)
NoBody == [ddlKind |-> "missing", ddl |-> <<>>]

Resp(kind, status, success, tokKind, tok, body, text) ==
    [kind |-> kind, status |-> status, success |-> success, tokKind |-> tokKind,
     tok |-> tok, body |-> body, text |-> text]

NoResp == Resp("none", 0, "missing", "missing", "", NoBody, <<>>)

TokenHttp(status, success, tokKind, tok) ==
    Resp("http", status, success, tokKind, tok, NoBody, <<>>)
DataHttp(status, body) == Resp("http", status, "missing", "missing", "", body, <<>>)
TextHttp(status, text) == Resp("http", status, "missing", "missing", "", NoBody, text)
Transport(kind) == Resp(kind, 0, "missing", "missing", "", NoBody, <<>>)

TokenResponses ==
    { TokenHttp(200, "true", "str", "tokA"),
      TokenHttp(200, "true", "str", ""),
      TokenHttp(200, "true", "null", ""),
      TokenHttp(200, "true", "missing", ""),
      TokenHttp(200, "false", "str", "tokA"),
      TokenHttp(401, "missing", "missing", ""),
      Transport("client_error"),
      Transport("timeout") }

Item(key, value, unit) == [key |-> key, value |-> value, unit |-> unit]
Device(dlKind, dl) == [dlKind |-> dlKind, dl |-> dl]
Body(ddlKind, ddl) == [ddlKind |-> ddlKind, ddl |-> ddl]

S_GridPower == <<"G","r","i","d"," ","P","o","w","e","r">>
S_grid_power == <<"g","r","i","d","-","p","o","w","e","r">>
S_SOC == <<"S","O","C">>
S_DeviceOnline == <<"D","e","v","i","c","e"," ","O","n","l","i","n","e">>

ItemsA ==
    << Item(PyStr(S_GridPower), PyInt(1500), PyStr(<<"W">>)),
       Item(PyStr(S_SOC), PyStr(<<"8","5">>), PyStr(<<"%">>)) >>
ItemsB ==
    << Item(PyStr(S_grid_power), PyStr(<<"N","a","N">>), Missing),
       Item(Missing, PyInt(1), PyStr(<<"W">>)),
       Item(PyStr(S_GridPower), PyStr(<<"1",".","5">>), PyStr(<<"W">>)),
       Item(PyStr(S_DeviceOnline), PyBool(FALSE), PyNone) >>
ItemsC ==
    << Item(PyStr(<<>>), PyInt(7), PyStr(<<"W">>)),
       Item(PyNone, Missing, Missing),
       Item(PyInt(0), PyInt(1), PyStr(<<"W">>)),
       Item(PyBool(FALSE), PyInt(1), PyStr(<<"W">>)) >>
\* the last two bodies: an item whose unit is a number, between two
\* well-formed items; an item whose key is a number
DataBodies ==
    { Body("missing", <<>>),
      Body("null", <<>>),
      Body("list", <<Device("missing", <<>>)>>),
      Body("list", <<Device("list", ItemsA)>>),
      Body("list", <<Device("list", ItemsB), Device("list", ItemsA)>>),
      Body("list", <<Device("list", ItemsC)>>),
      Body("list", <<Device("list",
          << Item(PyStr(S_SOC), PyStr(<<"8","5">>), PyStr(<<"%">>)),
             Item(PyStr(<<"P","V">>), PyInt(3), PyInt(5)),
             Item(PyStr(S_GridPower), PyInt(1500), PyStr(<<"W">>)) >>)>>),
      Body("list", <<Device("list",
          << Item(PyStr(S_SOC), PyInt(85), PyStr(<<"%">>)),
             Item(PyInt(5), PyInt(1), PyStr(<<"W">>)) >>)>>) }

DataResponses ==
    { DataHttp(200, b) : b \in DataBodies }
    \cup { DataHttp(401, NoBody), Transport("client_error"), Transport("timeout") }

TextA == <<"G","r","i","d"," ","P","o","w","e","r","\t","1","5","0","0","\t","W","\n","S","O","C","\t","8","5","\t","%","\n","\n">>
TextB == <<"g","r","i","d","-","p","o","w","e","r","\t","n","a","n","\r","\n","G","r","i","d"," ","P","o","w","e","r","\t","1",".","5","\t","k","W","\n","n","o","i","s","e","\n">>
TextD == <<"D","e","v","i","c","e"," ","O","n","l","i","n","e","\t","n","u","l","l">>

TextResponses ==
    { TextHttp(200, TextA), TextHttp(200, TextB), TextHttp(200, <<>>),
      TextHttp(200, TextD), TextHttp(304, <<>>), TextHttp(404, TextB),
      Transport("client_error"), Transport("timeout") }

(***************************************************************************)
(* State                                                                   *)
(***************************************************************************)
VARIABLES
    mode,              \* self._mode
    setup_pc,          \* position of async_setup_entry
    has_data,          \* coordinator.data is not None
    data,              \* coordinator.data, the Snapshot
    data_order,        \* the keys of coordinator.data in dict order
    access_token,      \* self._access_token
    token_expires_at,  \* self._token_expires_at
    pc,                \* position of the running _async_update_data
    attempt,           \* the loop variable of the retry wrapper
    last_exception,    \* the local last_exception of the retry wrapper
    token,             \* the local token of _update_from_deye
    timer,             \* the coordinator's refresh timer: "off" or "armed"
    platforms,         \* the platforms that are set up: their async_setup_entry has returned
    sensor_listener,   \* sensor.py: _maybe_add_new_sensors is a listener of the coordinator
    known_keys,        \* sensor.py: known_keys
    sensors,           \* sensor entities added, a count per key
    binary_sensors,    \* binary_sensor entities added, a count per key
    now,               \* datetime.now(), in minutes
    \* what the run has seen
    cycles,            \* poll cycles started
    inflight,          \* poll cycles started and not completed
    invocations,       \* fetch invocations of the current cycle
    delays,            \* asyncio.sleep calls of the current cycle
    failures,          \* failed fetch invocations of the current cycle
    token_requests,    \* token POSTs of the current cycle
    data_requests,     \* device-data POSTs of the current cycle
    cycle_outcome,     \* "none", "running", "success" or "failed"
    raised,            \* the exception the last cycle raised
    raised_count,      \* exceptions the current cycle raised to its caller
    has_before,        \* has_data when the current cycle started
    data_before,       \* data when the current cycle started
    last_resp,         \* the last response to a GET or device-data POST of the current cycle
    resp_at,           \* the clock when it was received
    \* config_flow.py
    flow_pc,           \* position of the config flow: "form", "validating" or "created"
    flow_errors,       \* errors["base"] of the form shown, "none" when errors is empty
    flow_resp,         \* the response to the POST of _validate_config
    \* a direct call of one of the pure functions
    call               \* [fn, arg, done, ret]

vars == << call, flow_pc, flow_errors, flow_resp, mode, setup_pc, has_data, data, data_order, access_token, token_expires_at,
           pc, attempt, last_exception, token, timer, platforms, sensor_listener, known_keys,
           sensors, binary_sensors, now, cycles, inflight, invocations, delays,
           failures, token_requests, data_requests, cycle_outcome, raised,
           raised_count, has_before, data_before, last_resp, resp_at >>

\* poll cycles a run starts
MaxCycles == 2

NoEntities == [k \in {} |-> 0]

\* async_add_entities(new): one more entity for each key of new
AddEntities(ents, new) ==
    [k \in (DOMAIN ents) \cup new |->
        (IF k \in DOMAIN ents THEN ents[k] ELSE 0) + (IF k \in new THEN 1 ELSE 0)]

(***************************************************************************)
(* Init: the config flow shows its form; the coordinator's fields hold the  *)
(* values its constructor gives them                                       *)
(***************************************************************************)
\* the fields of the coordinator as DeyeCloudCoordinator.__init__ sets them
CoordinatorInit ==
    /\ mode \in {MODE_API, MODE_DEYE_DIRECT}
    /\ setup_pc = "constructed"
    /\ has_data = FALSE
    /\ data = EmptyDict
    /\ data_order = <<>>
    /\ access_token = TokNone
    /\ token_expires_at = TimeNone
    /\ pc = "idle"
    /\ attempt = 0
    /\ last_exception = NoException
    /\ token = TokNone
    /\ timer = "off"
    /\ platforms = {}
    /\ sensor_listener = FALSE
    /\ known_keys = {}
    /\ sensors = NoEntities
    /\ binary_sensors = NoEntities
    /\ now = 0
    /\ cycles = 0
    /\ inflight = 0
    /\ invocations = 0
    /\ delays = 0
    /\ failures = 0
    /\ token_requests = 0
    /\ data_requests = 0
    /\ cycle_outcome = "none"
    /\ raised = NoRaise
    /\ raised_count = 0
    /\ has_before = FALSE
    /\ data_before = EmptyDict
    /\ last_resp = NoResp
    /\ resp_at = 0

\* no function is called directly
NoCall == [fn |-> "none", arg |-> <<>>, done |-> FALSE, ret |-> <<>>]

\* the mode has been chosen in async_step_user and the form of its step is shown
Init ==
    /\ CoordinatorInit
    /\ flow_pc = "form"
    /\ flow_errors = "none"
    /\ flow_resp = NoResp
    /\ call = NoCall

flowVars == <<flow_pc, flow_errors, flow_resp>>
coordinatorVars ==
    << mode, setup_pc, has_data, data, data_order, access_token, token_expires_at,
       pc, attempt, last_exception, token, timer, platforms, sensor_listener, known_keys,
       sensors, binary_sensors, now, cycles, inflight, invocations, delays,
       failures, token_requests, data_requests, cycle_outcome, raised,
       raised_count, has_before, data_before, last_resp, resp_at >>
cacheVars == <<access_token, token_expires_at>>
entityVars == <<platforms, sensor_listener, known_keys, sensors, binary_sensors>>
countVars == <<invocations, delays, failures, token_requests, data_requests>>
\* what the completion of a cycle writes
endVars == <<has_data, data, data_order, setup_pc, timer, known_keys, sensors, inflight,
             cycle_outcome, raised, raised_count>>

(***************************************************************************)
(* The coordinator's handling of what _async_update_data returns or raises *)
(***************************************************************************)
\* sensor.py, DeyeCloudSensor.__init__ raises AttributeError: _derive_classes
\* calls strip() on a unit that is truthy and not a str
ConstructorRaises(payload) == ~Falsy(payload.unit) /\ payload.unit.t # "str"

\* sensor.py, the loop of _maybe_add_new_sensors over the keys of d in dict
\* order: a key that is not known is added to known_keys before its entity is
\* constructed; the loop ends when a constructor raises
RECURSIVE NewSensors(_, _, _, _)
NewSensors(d, keys, known, new) ==
    IF keys = <<>> THEN [known |-> known, new |-> new, raised |-> FALSE]
    ELSE LET key == Head(keys)
         IN  IF key \in known THEN NewSensors(d, Tail(keys), known, new)
             ELSE IF ConstructorRaises(d[key])
                  THEN [known |-> known \cup {key}, new |-> new, raised |-> TRUE]
             ELSE NewSensors(d, Tail(keys), known \cup {key}, new \cup {key})

\* sensor.py, _maybe_add_new_sensors: the listener the sensor platform
\* registers; async_add_entities is not reached when a constructor raised
MaybeAddNewSensors(d, order) ==
    IF sensor_listener
    THEN LET w == NewSensors(d, order, known_keys, {})
         IN  /\ known_keys' = w.known
             /\ sensors' = IF w.raised THEN sensors ELSE AddEntities(sensors, w.new)
    ELSE UNCHANGED <<known_keys, sensors>>

\* mutant: the failure of the first refresh does not stop the setup
AfterFirstRefreshFailure_Ignored == "refreshed"

\* setup_pc after async_config_entry_first_refresh raised
AfterFirstRefreshFailure == "not_ready"

\* the coordinator has listeners: _maybe_add_new_sensors, or the entities of a
\* platform that is set up
HasListeners == sensor_listener \/ platforms # {}

\* _async_update_data returned result: it becomes coordinator.data, the
\* listeners run and the next refresh is scheduled
CycleSucceed(result, order) ==
    /\ has_data' = TRUE
    /\ data' = result
    /\ data_order' = order
    /\ cycle_outcome' = "success"
    /\ UNCHANGED <<raised, raised_count>>
    /\ setup_pc' = IF setup_pc = "first_refresh" THEN "refreshed" ELSE setup_pc
    /\ inflight' = inflight - 1
    /\ timer' = IF HasListeners THEN "armed" ELSE timer
    /\ MaybeAddNewSensors(result, order)

\* _async_update_data raised exc: coordinator.data is not assigned
CycleFail(exc) ==
    /\ UNCHANGED <<has_data, data, data_order>>
    /\ cycle_outcome' = "failed"
    /\ raised' = exc
    /\ raised_count' = raised_count + 1
    /\ setup_pc' = IF setup_pc = "first_refresh" THEN AfterFirstRefreshFailure ELSE setup_pc
    /\ inflight' = inflight - 1
    /\ timer' = IF HasListeners THEN "armed" ELSE timer
    /\ MaybeAddNewSensors(data, data_order)

\* a refresh starts: _async_update_data is called
BeginCycle ==
    /\ pc' = "attempt"
    /\ attempt' = 0
    /\ last_exception' = NoException
    /\ token' = TokNone
    /\ cycles' = cycles + 1
    /\ inflight' = inflight + 1
    /\ invocations' = 0
    /\ delays' = 0
    /\ failures' = 0
    /\ token_requests' = 0
    /\ data_requests' = 0
    /\ cycle_outcome' = "running"
    /\ raised' = NoRaise
    /\ raised_count' = 0
    /\ has_before' = has_data
    /\ data_before' = data
    /\ last_resp' = NoResp
    /\ resp_at' = 0

(***************************************************************************)
(* The retry wrappers                                                      *)
(***************************************************************************)
\* mutant: the backoff is skipped one attempt too early
ShouldSleepDeye_OffByOne(a) == a < max_retries - 2

\* mutant: the plain-text wrapper sleeps after every failed attempt
ShouldSleepApi_Always(a) == TRUE

\* _update_from_api_with_retry: if attempt < self._max_retries - 1
ShouldSleepApi(a) == a < max_retries - 1
\* _update_from_deye_with_retry: if attempt < self._max_retries - 1
ShouldSleepDeye(a) == a < max_retries - 1

\* mutant: only the first error is kept
RecordExceptionApi_First(prev, err) == IF prev = NoException THEN err ELSE prev

\* last_exception = err
RecordExceptionApi(prev, err) == err
RecordExceptionDeye(prev, err) == err

\* the coroutine has ended: its locals are gone
LocalsGone ==
    /\ pc' = "idle"
    /\ attempt' = 0
    /\ last_exception' = NoException
    /\ token' = TokNone

\* mutant: an exhausted cycle returns an empty dict instead of raising
DeyeExhausted_ReturnsEmpty(last) == LocalsGone /\ CycleSucceed(EmptyDict, <<>>)

\* the raise after the loop
ApiExhausted(last) == LocalsGone /\ CycleFail(TerminalApi(last))
DeyeExhausted(last) == LocalsGone /\ CycleFail(TerminalDeye(last))

\* await asyncio.sleep(self._retry_delay)
Sleep(last) ==
    /\ pc' = "sleep"
    /\ delays' = delays + 1
    /\ last_exception' = last
    /\ token' = TokNone
    /\ UNCHANGED attempt
    /\ UNCHANGED endVars

\* the next iteration of for attempt in range(self._max_retries)
NextAttempt(last) ==
    /\ pc' = "attempt"
    /\ attempt' = attempt + 1
    /\ last_exception' = last
    /\ token' = TokNone
    /\ UNCHANGED endVars

\* _update_from_api_with_retry: except Exception as err
ApiAttemptFailed(err) ==
    LET last == RecordExceptionApi(last_exception, err)
    IN  /\ failures' = failures + 1
        /\ IF ShouldSleepApi(attempt) THEN Sleep(last)
           ELSE IF attempt + 1 < max_retries THEN NextAttempt(last) /\ UNCHANGED delays
           ELSE ApiExhausted(last) /\ UNCHANGED delays

\* _update_from_deye_with_retry: except Exception as err
DeyeAttemptFailed(err) ==
    LET last == RecordExceptionDeye(last_exception, err)
    IN  /\ failures' = failures + 1
        /\ IF ShouldSleepDeye(attempt) THEN Sleep(last)
           ELSE IF attempt + 1 < max_retries THEN NextAttempt(last) /\ UNCHANGED delays
           ELSE DeyeExhausted(last) /\ UNCHANGED delays

\* return await self._update_from_api() / self._update_from_deye()
AttemptSucceeded(result, order) ==
    /\ LocalsGone
    /\ UNCHANGED <<failures, delays>>
    /\ CycleSucceed(result, order)

\* asyncio.sleep(self._retry_delay) returns: the loop goes on, or ends in the raise
Wake ==
    /\ pc = "sleep"
    /\ IF attempt + 1 < max_retries THEN NextAttempt(last_exception)
       ELSE IF mode = MODE_API THEN ApiExhausted(last_exception)
       ELSE DeyeExhausted(last_exception)
    /\ UNCHANGED <<call, flowVars, mode, cacheVars, platforms, sensor_listener, binary_sensors, now, cycles, countVars,
                   has_before, data_before, last_resp, resp_at>>

(***************************************************************************)
(* Plain-text path                                                         *)
(***************************************************************************)
\* session.get / session.post on a closed session: RuntimeError("Session is
\* closed"), raised before anything is sent
ClosedError(site, n) == Exc("RuntimeError", site, "none", "session_closed", n)

\* _update_from_api: what the GET raises, NoException when it raises nothing
ApiError(r, n) ==
    CASE r.kind = "client_error" ->
            Exc("UpdateFailed", "_update_from_api", "ClientError", "connection", n)
      [] r.kind = "timeout" ->
            Exc("TimeoutError", "_update_from_api", "none", "timeout", n)
      [] r.kind = "http" /\ r.status >= 400 ->
            Exc("UpdateFailed", "_update_from_api", "none", "http_status", n)
      [] OTHER -> NoException

\* mutant: the plain-text path adds the device status as the cloud path does
ApiResult_WithStatus(text) == AddDeviceStatus(parse_deyecloud_text(text), now)

\* return parse_deyecloud_text(text)
ApiResult(text) == parse_deyecloud_text(text)

\* _update_from_api_with_retry calls _update_from_api, which sends the GET
ApiAttempt ==
    /\ pc = "attempt"
    /\ mode = MODE_API
    /\ invocations' = invocations + 1
    /\ IF setup_pc = "unloaded"
       THEN ApiAttemptFailed(ClosedError("_update_from_api", invocations + 1))
       ELSE /\ pc' = "get_req"
            /\ UNCHANGED <<attempt, last_exception, token, delays, failures>>
            /\ UNCHANGED endVars
    /\ UNCHANGED <<call, flowVars, mode, cacheVars, platforms, sensor_listener,
                   binary_sensors, now, cycles, token_requests, data_requests,
                   has_before, data_before, last_resp, resp_at>>

\* the GET ends with r
ApiResponse(r) ==
    /\ pc = "get_req"
    /\ last_resp' = r
    /\ resp_at' = now
    /\ IF ApiError(r, invocations) = NoException
       THEN AttemptSucceeded(ApiResult(r.text), TextKeyOrder(r.text))
       ELSE ApiAttemptFailed(ApiError(r, invocations))
    /\ UNCHANGED <<call, flowVars, mode, cacheVars, platforms, sensor_listener, binary_sensors, now, cycles,
                   invocations, token_requests, data_requests, has_before,
                   data_before>>

(***************************************************************************)
(* Cloud-direct path                                                       *)
(***************************************************************************)
\* _get_deye_token: the cached token is used
CacheValid ==
    /\ TokTruthy(access_token)
    /\ token_expires_at.t = "time"
    /\ now < token_expires_at.at

\* _get_deye_token: what the token POST raises
TokenError(r, n) ==
    CASE r.kind = "client_error" ->
            Exc("UpdateFailed", "_get_deye_token", "ClientError", "connection", n)
      [] r.kind = "timeout" ->
            Exc("TimeoutError", "_get_deye_token", "none", "timeout", n)
      [] r.kind = "http" /\ r.status # 200 ->
            Exc("UpdateFailed", "_get_deye_token", "none", "http_status", n)
      [] r.kind = "http" /\ r.success # "true" ->
            Exc("UpdateFailed", "_get_deye_token", "none", "auth_rejected", n)
      [] r.kind = "http" /\ r.tokKind = "missing" ->
            Exc("UpdateFailed", "_get_deye_token", "none", "no_token", n)
      [] OTHER -> NoException

\* result["accessToken"]
TokenOf(r) == IF r.tokKind = "str" THEN TokStr(r.tok) ELSE TokNone

\* _get_deye_device_data: what the device-data POST raises; the f-string of
\* the debug line takes len() of the deviceDataList
DataError(r, n) ==
    CASE r.kind = "client_error" ->
            Exc("UpdateFailed", "_get_deye_device_data", "ClientError", "connection", n)
      [] r.kind = "timeout" ->
            Exc("TimeoutError", "_get_deye_device_data", "none", "timeout", n)
      [] r.kind = "http" /\ r.status # 200 ->
            Exc("UpdateFailed", "_get_deye_device_data", "none", "http_status", n)
      [] r.kind = "http" /\ r.body.ddlKind = "null" ->
            Exc("TypeError", "_get_deye_device_data", "none", "payload", n)
      [] r.kind = "http" /\ ConvertRaises(r.body) ->
            Exc("AttributeError", "_convert_deye_response", "none", "payload", n)
      [] OTHER -> NoException

\* mutant: the converted readings are merged into the stored Snapshot
FetchedSnapshot_Merged(body, at) ==
    LET new == convert_deye_response(body, at)
    IN  [k \in (DOMAIN data) \cup (DOMAIN new) |->
            IF k \in DOMAIN new THEN new[k] ELSE data[k]]

\* return self._convert_deye_response(result)
FetchedSnapshot(body, at) == convert_deye_response(body, at)

\* mutant: the device-data POST is sent without calling _get_deye_token
DeyeAttempt_DataFirst ==
    /\ pc = "attempt"
    /\ mode = MODE_DEYE_DIRECT
    /\ invocations' = invocations + 1
    /\ token' = access_token
    /\ pc' = "data_req"
    /\ data_requests' = data_requests + 1
    /\ UNCHANGED <<token_requests, delays, failures>>
    /\ UNCHANGED <<call, flowVars, mode, cacheVars, attempt, last_exception, platforms, sensor_listener,
                   binary_sensors, now, cycles, has_before, data_before,
                   last_resp, resp_at>>
    /\ UNCHANGED endVars

\* _update_from_deye_with_retry calls _update_from_deye, which calls
\* _get_deye_token: the cached token goes into the device-data POST, or the
\* token POST is sent; on a closed session the POST raises
DeyeAttempt ==
    /\ pc = "attempt"
    /\ mode = MODE_DEYE_DIRECT
    /\ invocations' = invocations + 1
    /\ IF setup_pc = "unloaded"
       THEN /\ DeyeAttemptFailed(WrapDeye(ClosedError(
                    IF CacheValid THEN "_get_deye_device_data" ELSE "_get_deye_token",
                    invocations + 1)))
            /\ UNCHANGED <<token_requests, data_requests>>
       ELSE /\ IF CacheValid
               THEN /\ token' = access_token
                    /\ pc' = "data_req"
                    /\ data_requests' = data_requests + 1
                    /\ UNCHANGED token_requests
               ELSE /\ pc' = "token_req"
                    /\ token_requests' = token_requests + 1
                    /\ UNCHANGED <<token, data_requests>>
            /\ UNCHANGED <<attempt, last_exception, delays, failures>>
            /\ UNCHANGED endVars
    /\ UNCHANGED <<call, flowVars, mode, cacheVars, platforms, sensor_listener, binary_sensors,
                   now, cycles, has_before, data_before, last_resp, resp_at>>

\* mutant: a failed authentication clears the cache
TokenResponse_ClearsOnFailure(r) ==
    /\ pc = "token_req"
    /\ IF TokenError(r, invocations) = NoException
       THEN /\ access_token' = TokenOf(r)
            /\ token_expires_at' = TimeAt(now + TokenTTLMinutes)
            /\ IF setup_pc = "unloaded"
               THEN /\ DeyeAttemptFailed(WrapDeye(
                            ClosedError("_get_deye_device_data", invocations)))
                    /\ UNCHANGED data_requests
               ELSE /\ token' = TokenOf(r)
                    /\ pc' = "data_req"
                    /\ data_requests' = data_requests + 1
                    /\ UNCHANGED <<attempt, last_exception, failures, delays>>
                    /\ UNCHANGED endVars
       ELSE /\ DeyeAttemptFailed(WrapDeye(TokenError(r, invocations)))
            /\ access_token' = TokNone
            /\ token_expires_at' = TimeNone
            /\ UNCHANGED data_requests
    /\ UNCHANGED <<call, flowVars, mode, platforms, sensor_listener, binary_sensors, now, cycles,
                   invocations, token_requests, has_before, data_before, last_resp, resp_at>>

\* the token POST ends with r: the token is stored and goes into the
\* device-data POST, which raises on a closed session
TokenResponse(r) ==
    /\ pc = "token_req"
    /\ IF TokenError(r, invocations) = NoException
       THEN /\ access_token' = TokenOf(r)
            /\ token_expires_at' = TimeAt(now + TokenTTLMinutes)
            /\ IF setup_pc = "unloaded"
               THEN /\ DeyeAttemptFailed(WrapDeye(
                            ClosedError("_get_deye_device_data", invocations)))
                    /\ UNCHANGED data_requests
               ELSE /\ token' = TokenOf(r)
                    /\ pc' = "data_req"
                    /\ data_requests' = data_requests + 1
                    /\ UNCHANGED <<attempt, last_exception, failures, delays>>
                    /\ UNCHANGED endVars
       ELSE /\ DeyeAttemptFailed(WrapDeye(TokenError(r, invocations)))
            /\ UNCHANGED <<cacheVars, data_requests>>
    /\ UNCHANGED <<call, flowVars, mode, platforms, sensor_listener, binary_sensors, now, cycles,
                   invocations, token_requests, has_before, data_before, last_resp, resp_at>>

\* the device-data POST ends with r
DataResponse(r) ==
    /\ pc = "data_req"
    /\ last_resp' = r
    /\ resp_at' = now
    /\ IF DataError(r, invocations) = NoException
       THEN AttemptSucceeded(FetchedSnapshot(r.body, now), CloudKeyOrder(r.body))
       ELSE DeyeAttemptFailed(WrapDeye(DataError(r, invocations)))
    /\ UNCHANGED <<call, flowVars, mode, cacheVars, platforms, sensor_listener, binary_sensors, now, cycles,
                   invocations, token_requests, data_requests, has_before,
                   data_before>>

(***************************************************************************)
(* The config flow (config_flow.py)                                        *)
(***************************************************************************)
\* an exception of the flow: its class and str(err)
FlowExc(cls, msg) == [cls |-> cls, msg |-> msg]
NoFlowExc == FlowExc("none", "none")

\* what the POST of _validate_config can end with
ValidationResponses ==
    { TokenHttp(200, "true", "str", "tokA"),
      TokenHttp(200, "true", "null", ""),
      TokenHttp(200, "true", "missing", ""),
      TokenHttp(200, "false", "str", "tokA"),
      TokenHttp(401, "missing", "missing", ""),
      Transport("client_error"),
      Transport("timeout") }

\* mutant: the success flag of the body is not looked at
ValidateError_IgnoresSuccess(r) ==
    CASE r.kind = "client_error" -> FlowExc("ValueError", "Network error")
      [] r.kind = "timeout" -> FlowExc("TimeoutError", "")
      [] r.kind = "http" /\ r.status # 200 -> FlowExc("ValueError", "Authentication failed: HTTP")
      [] r.kind = "http" /\ r.tokKind = "missing" -> FlowExc("ValueError", "No access token received")
      [] OTHER -> NoFlowExc

\* _validate_config: what it raises, NoFlowExc when it returns
ValidateError(r) ==
    CASE r.kind = "client_error" -> FlowExc("ValueError", "Network error")
      [] r.kind = "timeout" -> FlowExc("TimeoutError", "")
      [] r.kind = "http" /\ r.status # 200 -> FlowExc("ValueError", "Authentication failed: HTTP")
      [] r.kind = "http" /\ r.success # "true" -> FlowExc("ValueError", "Authentication failed")
      [] r.kind = "http" /\ r.tokKind = "missing" -> FlowExc("ValueError", "No access token received")
      [] OTHER -> NoFlowExc

\* self._abort_if_unique_id_configured() raises AbortFlow
AlreadyConfigured == FlowExc("AbortFlow", "already_configured")

\* async_step_api(user_input): the entry is created when a URL was given
StepApi(url_given) ==
    /\ flow_pc = "form"
    /\ mode = MODE_API
    /\ flow_pc' = IF url_given THEN "created" ELSE "form"
    /\ flow_errors' = IF url_given THEN "none" ELSE "invalid_url"
    /\ UNCHANGED <<call, flow_resp, coordinatorVars>>

\* async_step_deye(user_input): errors = {}, _validate_config sends its POST
StepDeye ==
    /\ flow_pc = "form"
    /\ mode = MODE_DEYE_DIRECT
    /\ flow_pc' = "validating"
    /\ flow_errors' = "none"
    /\ flow_resp' = NoResp
    /\ UNCHANGED <<call, coordinatorVars>>

\* the POST of _validate_config ends with r; configured: an entry with this
\* unique id exists.  except Exception: errors["base"] = str(err)
ValidateResponse(r, configured) ==
    /\ flow_pc = "validating"
    /\ flow_resp' = r
    /\ LET err == IF ValidateError(r) # NoFlowExc THEN ValidateError(r)
                  ELSE IF configured THEN AlreadyConfigured
                  ELSE NoFlowExc
       IN  IF err = NoFlowExc
           THEN flow_pc' = "created" /\ flow_errors' = "none"
           ELSE flow_pc' = "form" /\ flow_errors' = err.msg
    /\ UNCHANGED <<call, coordinatorVars>>

(***************************************************************************)
(* Setup, the refresh timer and the clock                                  *)
(***************************************************************************)
\* async_setup_entry: await coordinator.async_config_entry_first_refresh()
FirstRefresh ==
    /\ flow_pc = "created"
    /\ setup_pc = "constructed"
    /\ setup_pc' = "first_refresh"
    /\ BeginCycle
    /\ UNCHANGED <<call, flowVars, mode, has_data, data, data_order, cacheVars, timer, entityVars, now>>

\* async_setup_entry: hass.data[DOMAIN][entry.entry_id] = {...}
SetupRegister ==
    /\ setup_pc = "refreshed"
    /\ setup_pc' = "registered"
    /\ UNCHANGED <<call, flowVars, mode, has_data, data, data_order, cacheVars, pc, attempt, last_exception, token,
                   timer, entityVars, now, cycles, inflight, countVars, cycle_outcome,
                   raised, raised_count, has_before, data_before, last_resp, resp_at>>

\* sensor.py, async_setup_entry: a sensor per key of coordinator.data, then
\* known_keys and the listener, whose registration arms the timer of a
\* coordinator that had no listener; when the constructor of a sensor raises,
\* nothing of this is reached and the platform is not set up
SensorSetup ==
    IF \E key \in DOMAIN data : ConstructorRaises(data[key])
    THEN UNCHANGED <<platforms, sensors, known_keys, sensor_listener, timer>>
    ELSE /\ platforms' = platforms \cup {"sensor"}
         /\ sensors' = AddEntities(sensors, DOMAIN data)
         /\ known_keys' = DOMAIN data
         /\ sensor_listener' = TRUE
         /\ timer' = "armed"

\* binary_sensor.py, async_setup_entry: a binary sensor per key of
\* BINARY_SENSOR_MAP; its entity is the first listener of the coordinator when
\* the sensor platform registered none
BinarySensorSetup ==
    /\ platforms' = platforms \cup {"binary_sensor"}
    /\ binary_sensors' = AddEntities(binary_sensors, {KeyDeviceOnline})
    /\ timer' = IF HasListeners THEN timer ELSE "armed"

\* binary_sensor.py, DeyeCloudBinarySensor.is_on for the entity of key, read
\* from the Snapshot d
is_on(d, key) ==
    IF key \notin DOMAIN d THEN PyNone
    ELSE LET value == d[key].value
         IN  IF value.t = "bool" THEN value
             ELSE IF value.t = "none" THEN PyNone
             ELSE IF value.t = "str" THEN PyBool(value.s # <<>>)
             ELSE PyBool(value.n # 0 \/ (value.t = "float" /\ value.d = 0))

\* mutant: the platforms are forwarded without awaiting the first refresh
ForwardSensorSetup_Early ==
    /\ setup_pc = "first_refresh"
    /\ setup_pc' = "first_refresh"
    /\ platforms = {}
    /\ SensorSetup
    /\ UNCHANGED <<call, flowVars, mode, has_data, data, data_order, cacheVars, pc, attempt,
                   last_exception, token, binary_sensors, now, cycles, inflight, countVars,
                   cycle_outcome, raised, raised_count, has_before, data_before, last_resp,
                   resp_at>>

\* async_setup_entry: await hass.config_entries.async_forward_entry_setups(entry,
\* PLATFORMS), the first platform of PLATFORMS: sensor.async_setup_entry runs
ForwardSensorSetup ==
    /\ setup_pc = "registered"
    /\ setup_pc' = "sensor_forwarded"
    /\ SensorSetup
    /\ UNCHANGED <<call, flowVars, mode, has_data, data, data_order, cacheVars, pc, attempt,
                   last_exception, token, binary_sensors, now, cycles, inflight, countVars,
                   cycle_outcome, raised, raised_count, has_before, data_before, last_resp,
                   resp_at>>

\* the second platform of PLATFORMS: binary_sensor.async_setup_entry runs, and
\* async_setup_entry returns True
ForwardBinarySensorSetup ==
    /\ setup_pc = "sensor_forwarded"
    /\ setup_pc' = "done"
    /\ BinarySensorSetup
    /\ UNCHANGED <<call, flowVars, mode, has_data, data, data_order, cacheVars, pc, attempt,
                   last_exception, token, sensor_listener, known_keys, sensors, now, cycles,
                   inflight, countVars, cycle_outcome, raised, raised_count, has_before,
                   data_before, last_resp, resp_at>>

\* async_unload_entry is called and awaits async_unload_platforms: the session
\* is still open and the coordinator goes on
UnloadEntryBegin ==
    /\ setup_pc = "done"
    /\ setup_pc' = "unloading"
    /\ UNCHANGED <<call, flowVars, mode, has_data, data, data_order, cacheVars, pc, attempt,
                   last_exception, token, timer, entityVars, now, cycles, inflight, countVars,
                   cycle_outcome, raised, raised_count, has_before, data_before, last_resp,
                   resp_at>>

\* async_unload_platforms has returned: the platforms are unloaded, the entry
\* of hass.data is popped and the session is closed.  The listener of
\* sensor.py stays (its removal callback was dropped), so the timer of a
\* coordinator that has it goes on; the entities that were added stay counted
UnloadEntry ==
    /\ setup_pc = "unloading"
    /\ setup_pc' = "unloaded"
    /\ platforms' = {}
    /\ timer' = IF sensor_listener THEN timer ELSE "off"
    /\ UNCHANGED <<call, flowVars, mode, has_data, data, data_order, cacheVars, pc, attempt,
                   last_exception, token, sensor_listener, known_keys, sensors, binary_sensors,
                   now, cycles, inflight, countVars, cycle_outcome, raised, raised_count,
                   has_before, data_before, last_resp, resp_at>>

\* the refresh timer fires: it was armed when the previous refresh completed
Tick ==
    /\ timer = "armed"
    /\ cycles < MaxCycles
    /\ timer' = "off"
    /\ BeginCycle
    /\ UNCHANGED <<call, flowVars, mode, setup_pc, has_data, data, data_order, cacheVars, entityVars, now>>

\* time passes
AdvanceClock ==
    /\ now + ClockStep <= MaxTime
    /\ now' = now + ClockStep
    /\ UNCHANGED <<call, flowVars, mode, setup_pc, has_data, data, data_order, cacheVars, pc, attempt,
                   last_exception, token, timer, entityVars, cycles, inflight,
                   countVars, cycle_outcome, raised, raised_count, has_before,
                   data_before, last_resp, resp_at>>

Next ==
    \/ \E url_given \in BOOLEAN : StepApi(url_given)
    \/ StepDeye
    \/ \E r \in ValidationResponses, configured \in BOOLEAN : ValidateResponse(r, configured)
    \/ FirstRefresh
    \/ SetupRegister
    \/ ForwardSensorSetup
    \/ ForwardBinarySensorSetup
    \/ UnloadEntryBegin
    \/ UnloadEntry
    \/ Tick
    \/ ApiAttempt
    \/ \E r \in TextResponses : ApiResponse(r)
    \/ DeyeAttempt
    \/ \E r \in TokenResponses : TokenResponse(r)
    \/ \E r \in DataResponses : DataResponse(r)
    \/ Wake
    \/ AdvanceClock

Spec == Init /\ [][Next]_vars

(***************************************************************************)
(* Direct calls of the pure functions: normalize_key, parse_deyecloud_text,*)
(* _convert_deye_response and the two value conversions, each applied to   *)
(* an argument drawn from a bounded set                                    *)
(***************************************************************************)
\* the longest name normalize_key is called with
MaxKeyLen == 4
\* the most lines of a text parse_deyecloud_text is called with
MaxLines == 3
\* the most data items of the first device _convert_deye_response is called with
MaxItems == 3

KeyAlphabet == {"A", "É", "b", " ", "\t", "\f", "/", "-", "(", ")", "_"}

\* the sequences over alphabet of length at most n
SeqsUpTo(alphabet, n) == UNION { [1..k -> alphabet] : k \in 0..n }

KeyInputs == SeqsUpTo(KeyAlphabet, MaxKeyLen)

\* raw values, as text
ValueTexts ==
    { <<"n","a","n">>, <<"N","a","N">>, <<"i","n","f">>, <<"-","i","n","f">>,
      <<"-","I","N","F">>, <<"n","u","l","l">>, <<"N","U","L","L">>, <<"N","u","l","l">>,
      <<"1","2">>, <<"1",".","5">>, <<"1","e","2">>, <<"a","b","c">>, <<>>,
      <<"n","a","n","o">>, <<"+","i","n","f">> }

\* raw values as the cloud API supplies them
CloudValues ==
    { PyStr(x) : x \in ValueTexts }
    \cup { PyStr(<<"5", "">>), PyStr(<<"", "1", ".", "5">>),
           PyStr(<<" ", "5", "">>), PyStr(<<" ", "1", ".", "5", "\t">>) }
    \cup { PyNone, PyInt(5), PyInt(-5), PyBool(TRUE), PyFloat(3, 2), PyFloat(2, 1),
           PyFloat(-1, 100000), PyNaN, PyInf(1), PyInf(-1) }

\* lines of a text, without their line break
TextLineInputs ==
    { <<"a","\t","1">>,
      <<"A","\t","2","\t","W">>,
      <<"a"," ","b","\t","n","a","n">>,
      <<"A","-","b","\t","n","u","l","l","\t">>,
      <<"a">>,
      <<>>,
      <<" ","\t"," ">>,
      <<"a","\t","1","\f","b","\t","2","">>,
      <<"\t","a","\t","\t","x"," ">>,
      <<"a"," ","\t"," ","1",".","5"," ","\t"," ","k","W"," ","\t","z">> }

\* the text whose lines are ls, each ended by a line feed
RECURSIVE JoinLines(_)
JoinLines(ls) == IF ls = <<>> THEN <<>> ELSE Head(ls) \o <<"\n">> \o JoinLines(Tail(ls))

TextInputs == { JoinLines(ls) : ls \in SeqsUpTo(TextLineInputs, MaxLines) }


\* data items of a device
ItemInputs ==
    { Item(PyStr(S_GridPower), PyInt(1), PyStr(<<"W">>)),
      Item(PyStr(S_grid_power), PyStr(<<"2">>), Missing),
      Item(PyStr(S_DeviceOnline), PyBool(FALSE), PyNone),
      Item(PyStr(<<"d","e","v","i","c","e","-","o","n","l","i","n","e">>), PyInt(0), PyStr(<<"W">>)),
      Item(PyStr(NameLastUpdate), PyStr(<<"x">>), PyNone),
      Item(PyStr(<<>>), PyInt(7), PyStr(<<"W">>)),
      Item(PyInt(0), PyInt(1), PyStr(<<"W">>)),
      Item(PyInt(5), PyInt(1), PyStr(<<"W">>)),
      Item(PyStr(S_SOC), PyInt(3), PyBool(TRUE)) }

\* device-data bodies: the first device with its items, alone or followed by
\* a second device
BodyInputs ==
    { Body("missing", <<>>), Body("null", <<>>), Body("list", <<>>),
      Body("list", <<Device("missing", <<>>)>>), Body("list", <<Device("null", <<>>)>>) }
    \cup { Body("list", <<Device("list", items)>>) : items \in SeqsUpTo(ItemInputs, MaxItems) }
    \cup { Body("list", <<Device("list", items), Device("list", ItemsA)>>) :
               items \in SeqsUpTo(ItemInputs, MaxItems) }

Call(fn, arg) == [fn |-> fn, arg |-> arg, done |-> FALSE, ret |-> <<>>]
Returned(c, ret) == [c EXCEPT !.done = TRUE, !.ret = ret]

FnInit ==
    /\ CoordinatorInit
    /\ mode = MODE_DEYE_DIRECT
    /\ flow_pc = "form"
    /\ flow_errors = "none"
    /\ flow_resp = NoResp
    /\ \/ call \in { Call("normalize_key", x) : x \in KeyInputs }
       \/ call \in { Call("parse_deyecloud_text", x) : x \in TextInputs }
       \/ call \in { Call("text_value", x) : x \in ValueTexts }
       \/ call \in { Call("cloud_value", x) : x \in CloudValues }
       \/ call \in { Call("_convert_deye_response", x) : x \in BodyInputs }

CallNormalizeKey ==
    /\ call.fn = "normalize_key" /\ ~call.done
    /\ call' = Returned(call, normalize_key(call.arg))
    /\ UNCHANGED <<flowVars, coordinatorVars>>

CallParseText ==
    /\ call.fn = "parse_deyecloud_text" /\ ~call.done
    /\ call' = Returned(call, parse_deyecloud_text(call.arg))
    /\ UNCHANGED <<flowVars, coordinatorVars>>

\* the numeric cast of parse_deyecloud_text applied to one value_str
CallTextValue ==
    /\ call.fn = "text_value" /\ ~call.done
    /\ call' = Returned(call, ConvertTextValue(call.arg))
    /\ UNCHANGED <<flowVars, coordinatorVars>>

\* the value conversion of _convert_deye_response applied to one value
CallCloudValue ==
    /\ call.fn = "cloud_value" /\ ~call.done
    /\ call' = Returned(call, ConvertCloudValue(call.arg))
    /\ UNCHANGED <<flowVars, coordinatorVars>>

CallConvertResponse ==
    /\ call.fn = "_convert_deye_response" /\ ~call.done
    /\ call' = Returned(call, convert_deye_response(call.arg, now))
    /\ UNCHANGED <<flowVars, coordinatorVars>>

FnNext ==
    \/ CallNormalizeKey
    \/ CallParseText
    \/ CallTextValue
    \/ CallCloudValue
    \/ CallConvertResponse

SpecFn == FnInit /\ [][FnNext]_vars

(***************************************************************************)
(* Properties                                                              *)
(***************************************************************************)

\* C1: a cycle that ended in success after k failed attempts (k = 0, 1 or 2)
\* made exactly k + 1 fetch invocations and exactly k backoff delays, raised
\* nothing, and is over: no fetch follows the success.
C1_SuccessAfterRetries ==
    cycle_outcome = "success" =>
        /\ failures \in 0..(max_retries - 1)
        /\ invocations = failures + 1
        /\ delays = failures
        /\ raised_count = 0
        /\ has_data
        /\ pc = "idle"

C1_Witness ==
    cycle_outcome = "success" /\ failures = 2 /\ invocations = 3 /\ delays = 2

\* C2: a cycle whose every attempt failed made exactly max_retries (3) fetch
\* invocations and max_retries - 1 (2) backoff delays, and raised exactly one
\* UpdateFailed, which wraps the error of the last invocation.
C2_ExhaustedCycle ==
    cycle_outcome = "failed" =>
        /\ failures = max_retries
        /\ invocations = max_retries
        /\ delays = max_retries - 1
        /\ raised_count = 1
        /\ raised.cls = "UpdateFailed"
        /\ raised.wraps # NoException
        /\ raised.wraps.n = max_retries
        /\ pc = "idle"

C2_Witness ==
    /\ cycle_outcome = "failed"
    /\ mode = MODE_API
    /\ raised.wraps.cls = "TimeoutError"
    /\ delays = 2

\* C3 (as claimed): once a token has been stored, a _get_deye_token call made
\* before expires_at sends no token request and returns the cached token, and
\* a call made at or after expires_at sends exactly one token request.
C3_CachedTokenReused ==
    [][ ( /\ pc = "attempt"
          /\ pc' # "attempt"
          /\ mode = MODE_DEYE_DIRECT
          /\ token_expires_at.t = "time" )
        => IF now < token_expires_at.at
           THEN token_requests' = token_requests /\ token' = access_token
           ELSE token_requests' = token_requests + 1 ]_vars

\* C4: when all max_retries attempts of a cycle have failed, coordinator.data
\* is what it was when the cycle started.
C4_FailureKeepsSnapshot ==
    (pc = "idle" /\ failures = max_retries) =>
        (has_data = has_before /\ data = data_before)

C4_Witness ==
    /\ pc = "idle"
    /\ failures = max_retries
    /\ cycle_outcome = "failed"
    /\ has_data
    /\ data # EmptyDict
    /\ cycles = 2

\* the readings the fetch of the current mode produces from the response resp
\* received at the clock reading at
ProducedBy(resp, at) ==
    IF mode = MODE_API THEN parse_deyecloud_text(resp.text)
    ELSE convert_deye_response(resp.body, at)

\* C5: after a successful cycle coordinator.data is exactly what the fetch
\* produced from the response of that cycle (nothing of the previous Snapshot
\* is merged in), and while a cycle runs coordinator.data is still the
\* Snapshot the cycle started with.
C5_SnapshotReplaced ==
    /\ cycle_outcome = "success" => (has_data /\ data = ProducedBy(last_resp, resp_at))
    /\ cycle_outcome = "running" => (has_data = has_before /\ data = data_before)

C5_Witness ==
    /\ cycle_outcome = "success"
    /\ has_before
    /\ \E k \in DOMAIN data_before : k \notin DOMAIN data
    /\ \E k \in DOMAIN data : k \notin DOMAIN data_before

\* C6 (as claimed): the Snapshot of every successful cloud-direct cycle holds
\* device_online, with the value True, and last_update.
C6_SyntheticReadingsAlways ==
    (cycle_outcome = "success" /\ mode = MODE_DEYE_DIRECT) =>
        /\ {KeyDeviceOnline, KeyLastUpdate} \subseteq DOMAIN data
        /\ data[KeyDeviceOnline].value = PyBool(TRUE)

\* an HTTP 200 device-data response with no device entries, or whose first
\* device has no data-item list
EmptyPayload(r) ==
    /\ r.kind = "http"
    /\ r.status = 200
    /\ (NoDeviceData(r.body) \/ NoDataList(r.body.ddl[1]))

\* C7 (as claimed): a device-data response with status 200 and no device
\* entries, or no data-item list of the first device, ends the cycle in
\* success with an empty Snapshot; no backoff delay or retry follows it.
C7_EmptyPayloadSucceeds ==
    (mode = MODE_DEYE_DIRECT /\ EmptyPayload(last_resp)) =>
        /\ cycle_outcome = "success"
        /\ pc = "idle"
        /\ data = EmptyDict

\* C8: at most one poll cycle is in flight, and the timer is armed only
\* while no cycle is in flight.
C8_SingleFlight ==
    /\ inflight \in {0, 1}
    /\ (inflight = 1) <=> (pc # "idle")
    /\ timer = "armed" => inflight = 0

C8_Witness ==
    /\ pc = "sleep"
    /\ cycles = 2
    /\ inflight = 1
    /\ timer = "off"
    /\ now > 0

\* C9: the coordinator is registered and the platforms are set up only
\* after the first cycle has completed in success, so with a Snapshot; after
\* a first cycle that failed nothing is registered and no entity exists.
C9_FirstRefreshBeforeConsumers ==
    /\ setup_pc = "registered" =>
          (cycles = 1 /\ pc = "idle" /\ cycle_outcome = "success")
    /\ (setup_pc \in {"registered", "sensor_forwarded", "done", "unloading", "unloaded"}
            \/ platforms # {} \/ sensor_listener) => has_data
    /\ (platforms # {} \/ sensor_listener) =>
          setup_pc \in {"sensor_forwarded", "done", "unloading", "unloaded"}
    /\ "binary_sensor" \in platforms => setup_pc \in {"done", "unloading"}
    /\ setup_pc = "not_ready" =>
          /\ cycle_outcome = "failed"
          /\ ~has_data
          /\ platforms = {}
          /\ ~sensor_listener
          /\ DOMAIN sensors = {}
          /\ DOMAIN binary_sensors = {}

C9_Witness ==
    /\ setup_pc = "done"
    /\ platforms = {"sensor", "binary_sensor"}
    /\ cycles = 1
    /\ failures = 2
    /\ has_data
    /\ DOMAIN sensors = DOMAIN data
    /\ KeyDeviceOnline \in DOMAIN binary_sensors

\* C10 (as claimed): an error that began as a connection error or a timeout
\* is an UpdateFailed when the retry wrapper catches it.
C10_TransportClassified ==
    last_exception.origin \in {"connection", "timeout"} =>
        last_exception.cls = "UpdateFailed"

\* C11 (as claimed): in api mode a response whose status is not 2xx fails the
\* attempt: the cycle does not end in success on it.
C11_Non2xxFails ==
    (mode = MODE_API /\ last_resp.kind = "http" /\ last_resp.status \notin 200..299) =>
        (failures >= 1 /\ cycle_outcome # "success")

\* the lines of raw_text that have at least 2 non-empty tab-separated fragments
EntryLines(raw_text) ==
    LET ls == SplitLines(raw_text)
    IN  { i \in 1..Len(ls) : Len(NonEmpty(Split(Strip(ls[i]), "\t"))) >= 2 }

\* the k-th non-empty fragment of line i of raw_text, trimmed
EntryPart(raw_text, i, k) ==
    Strip(NonEmpty(Split(Strip(SplitLines(raw_text)[i]), "\t"))[k])

\* C12: every reading of a Snapshot produced in api mode comes from a line of
\* the response body whose name normalizes to its id, and carries that line's
\* name; no last_update reading exists, as no body has a line of that name.
C12_OnlyParsedReadings ==
    /\ (mode = MODE_API /\ cycle_outcome = "success") =>
          \A k \in DOMAIN data :
              \E i \in EntryLines(last_resp.text) :
                  /\ normalize_key(EntryPart(last_resp.text, i, 1)) = k
                  /\ data[k].name = EntryPart(last_resp.text, i, 1)
    /\ (mode = MODE_API /\ has_data) => KeyLastUpdate \notin DOMAIN data

C12_Witness ==
    /\ mode = MODE_API
    /\ cycle_outcome = "success"
    /\ data # EmptyDict
    /\ KeyDeviceOnline \notin DOMAIN data
    /\ KeyDeviceOnline \in DOMAIN data_before

\* the four texts the claim names
SentinelWords ==
    { <<"n","a","n">>, <<"i","n","f">>, <<"-","i","n","f">>, <<"n","u","l","l">> }

\* C13 (as claimed): in the text parser and in the cloud conversion alike, a
\* raw textual value that is, in any letter case, nan, inf, -inf or null
\* gives the value None.
C13_SentinelsNull ==
    /\ (call.fn = "text_value" /\ call.done /\ Lower(call.arg) \in SentinelWords) =>
          call.ret = PyNone
    /\ (call.fn = "cloud_value" /\ call.done /\ call.arg.t = "str"
            /\ Lower(call.arg.s) \in SentinelWords) =>
          call.ret = PyNone

\* C14: normalize_key applied to its own result returns it unchanged.
C14_NormalizeIdempotent ==
    (call.fn = "normalize_key" /\ call.done) => normalize_key(call.ret) = call.ret

C14_Witness ==
    /\ call.fn = "normalize_key"
    /\ call.done
    /\ call.arg = <<" ", "A", "(", "-">>
    /\ call.ret = <<"a", "_">>

\* the lines of raw_text that are not blank after trimming
NonBlankLines(raw_text) ==
    LET ls == SplitLines(raw_text) IN { i \in 1..Len(ls) : Strip(ls[i]) # <<>> }

\* C15: parse_deyecloud_text returns a Snapshot whose ids are the normalized
\* names of the lines with at least 2 non-empty fragments: no more readings
\* than non-blank lines, none from a line with fewer than 2 fragments, and
\* the empty Snapshot when no line has 2 fragments.
C15_ParserTotal ==
    (call.fn = "parse_deyecloud_text" /\ call.done) =>
        /\ DOMAIN call.ret =
              { normalize_key(EntryPart(call.arg, i, 1)) : i \in EntryLines(call.arg) }
        /\ Cardinality(DOMAIN call.ret) <= Cardinality(NonBlankLines(call.arg))
        /\ EntryLines(call.arg) = {} => call.ret = EmptyDict
        /\ \A k \in DOMAIN call.ret :
              /\ call.ret[k].value.t \in {"none", "int", "float", "str"}
              /\ call.ret[k].unit.t \in {"none", "str"}

C15_Witness ==
    /\ call.fn = "parse_deyecloud_text"
    /\ call.done
    /\ Len(SplitLines(call.arg)) = 3
    /\ Cardinality(NonBlankLines(call.arg)) = 2
    /\ Cardinality(EntryLines(call.arg)) = 1
    /\ Cardinality(DOMAIN call.ret) = 1

\* C16: within a cloud-direct cycle a device-data request is sent only in the
\* step in which _get_deye_token returns, from a valid cache or from a token
\* response that has just been stored; a token request that fails ends the
\* attempt as a failure with no device-data request; an attempt sends at most
\* one device-data request.
C16_TokenBeforeData ==
    [][ (mode = MODE_DEYE_DIRECT /\ pc # "idle") =>
          /\ data_requests' # data_requests =>
                /\ data_requests' = data_requests + 1
                /\ pc' = "data_req"
                /\ \/ /\ pc = "attempt"
                      /\ TokTruthy(access_token)
                      /\ token_expires_at.t = "time"
                      /\ now < token_expires_at.at
                      /\ token' = access_token
                      /\ token_requests' = token_requests
                   \/ /\ pc = "token_req"
                      /\ token' = access_token'
                      /\ token_expires_at' = TimeAt(now + TokenTTLMinutes)
          /\ (pc = "token_req" /\ pc' \notin {"token_req", "data_req"}) =>
                (failures' = failures + 1 /\ data_requests' = data_requests)
          /\ data_requests <= invocations
          /\ token_requests <= invocations ]_vars

C16_Witness ==
    /\ pc = "data_req"
    /\ invocations = 2
    /\ failures = 1
    /\ token_requests = 2
    /\ data_requests = 1

\* C17: the two retry wrappers take the same decisions (sleep or not, which
\* error is kept, what is raised at the end), and in either mode a cycle is
\* the same sequence: invocation k + 1 follows k failures and k delays, a
\* delay follows each failure but the last, a success ends the cycle with the
\* fetched result and max_retries failures end it with one UpdateFailed that
\* wraps the error of the last invocation.
C17_WrappersAgree ==
    /\ \A a \in 0..(max_retries - 1) : ShouldSleepApi(a) <=> ShouldSleepDeye(a)
    /\ RecordExceptionApi(NoException, last_exception)
          = RecordExceptionDeye(NoException, last_exception)
    /\ TerminalApi(last_exception) = TerminalDeye(last_exception)
    /\ pc = "attempt" =>
          (attempt < max_retries /\ invocations = attempt /\ failures = attempt
             /\ delays = attempt)
    /\ pc \in {"get_req", "token_req", "data_req"} =>
          (invocations = attempt + 1 /\ failures = attempt /\ delays = attempt)
    /\ pc = "sleep" =>
          (attempt < max_retries - 1 /\ invocations = attempt + 1
             /\ failures = attempt + 1 /\ delays = attempt + 1
             /\ last_exception.n = invocations)
    /\ cycle_outcome = "success" =>
          (invocations = failures + 1 /\ delays = failures
             /\ data = ProducedBy(last_resp, resp_at))
    /\ cycle_outcome = "failed" =>
          (invocations = max_retries /\ delays = max_retries - 1
             /\ raised.cls = "UpdateFailed" /\ raised.wraps.n = max_retries)

C17_Witness ==
    /\ mode = MODE_DEYE_DIRECT
    /\ cycle_outcome = "failed"
    /\ cycles = 2
    /\ delays = 2
    /\ raised.wraps.site = "_update_from_deye"
    /\ raised.wraps.origin = "http_status"

\* C19 (as claimed): once sensor.async_setup_entry has run there is exactly
\* one sensor entity for every id that was in the Snapshot at setup or after
\* a later update: an id of the current Snapshot has its entity, and no id
\* has two.
C19_OneEntityPerId ==
    setup_pc \in {"sensor_forwarded", "done", "unloading"} =>
        /\ \A k \in DOMAIN sensors : sensors[k] = 1
        /\ DOMAIN data \subseteq DOMAIN sensors

\* the validation response is an HTTP 200 with a truthy success flag and an
\* accessToken field
ValidationPassed(r) ==
    r.kind = "http" /\ r.status = 200 /\ r.success = "true" /\ r.tokKind # "missing"

\* C20: in cloud-direct mode the entry exists only after a validation call
\* that passed; after a validation call that did not pass the form is shown
\* with errors["base"] set and there is no entry; no setup runs without an
\* entry; the token cache is empty until the first cycle, whose first attempt
\* sends its own token request.
C20_EntryAfterValidation ==
    /\ (mode = MODE_DEYE_DIRECT /\ flow_pc = "created") => ValidationPassed(flow_resp)
    /\ (mode = MODE_DEYE_DIRECT /\ flow_resp # NoResp /\ ~ValidationPassed(flow_resp)) =>
          (flow_pc = "form" /\ flow_errors # "none")
    /\ flow_pc # "created" => (setup_pc = "constructed" /\ cycles = 0)
    /\ cycles = 0 => (access_token = TokNone /\ token_expires_at = TimeNone)
    /\ (mode = MODE_DEYE_DIRECT /\ cycles = 1 /\ invocations >= 1) => token_requests >= 1

C20_Witness ==
    /\ mode = MODE_DEYE_DIRECT
    /\ flow_pc = "created"
    /\ flow_resp = TokenHttp(200, "true", "str", "tokA")
    /\ cycles = 1
    /\ pc = "token_req"
    /\ invocations = 1
    /\ token_requests = 1
    /\ access_token = TokNone

\* the largest element of a non-empty set of numbers
Max(S) == CHOOSE m \in S : \A x \in S : x <= m

\* the lines of raw_text whose name normalizes to k
LinesFor(raw_text, k) ==
    { i \in EntryLines(raw_text) : normalize_key(EntryPart(raw_text, i, 1)) = k }

\* the reading line i of raw_text stands for
LineReading(raw_text, i) ==
    Reading(EntryPart(raw_text, i, 1),
            ConvertTextValue(EntryPart(raw_text, i, 2)),
            IF Len(NonEmpty(Split(Strip(SplitLines(raw_text)[i]), "\t"))) >= 3
            THEN PyStr(EntryPart(raw_text, i, 3)) ELSE PyNone)

\* the data items of items with a non-empty key that normalizes to k
ItemsFor(items, k) ==
    { i \in 1..Len(items) :
        /\ items[i].key.t = "str"
        /\ items[i].key.s # <<>>
        /\ normalize_key(items[i].key.s) = k }

\* the ids two or more data items of items normalize to
CollidingIds(items) ==
    { k \in { normalize_key(items[i].key.s) : i \in 1..Len(items) } :
        Cardinality(ItemsFor(items, k)) >= 2 }

\* the reading data item i of items stands for
ItemReading(items, i) ==
    Reading(items[i].key.s,
            ConvertCloudValue(GetOr(items[i].value, PyNone)),
            GetOr(items[i].unit, PyStr(<<>>)))

\* text lines: the reading of an id is the one of the last line with that id
TextLastWins ==
    (call.fn = "parse_deyecloud_text" /\ call.done) =>
        \A k \in DOMAIN call.ret :
            call.ret[k] = LineReading(call.arg, Max(LinesFor(call.arg, k)))

\* C18: when two lines of a text, or two data items of a cloud payload, have
\* names that normalize to the same id, the Snapshot holds one reading for
\* that id and it is the one of the later of them.  The data items are those
\* of the first device, the only ones that are read; the ids device_online
\* and last_update, which the status entries written after the items replace
\* in every payload, are left to C23.
C18_LastEntryWins ==
    /\ TextLastWins
    /\ ( /\ call.fn = "_convert_deye_response"
         /\ call.done
         /\ ~NoDeviceData(call.arg)
         /\ ~NoDataList(call.arg.ddl[1]) ) =>
          LET items == call.arg.ddl[1].dl
          IN  \A k \in CollidingIds(items) \ {KeyDeviceOnline, KeyLastUpdate} :
                  /\ ~ConvertRaises(call.arg)
                  /\ k \in DOMAIN call.ret
                  /\ call.ret[k] = ItemReading(items, Max(ItemsFor(items, k)))

\* C21: a _get_deye_token call that fails (a non-200 status, a falsy success
\* flag, no accessToken field, a client error or a timeout) leaves
\* _access_token and _token_expires_at as they were before the call.
C21_FailedTokenKeepsCache ==
    [][ ( /\ pc = "token_req"
          /\ failures' = failures + 1
          /\ (IF pc' = "idle" THEN raised'.wraps ELSE last_exception').origin
                 # "session_closed" ) =>
            (access_token' = access_token /\ token_expires_at' = token_expires_at) ]_vars

\* a token request has failed in this cycle while the cache held an expired
\* token, and the cache still holds it
C21_Witness ==
    /\ mode = MODE_DEYE_DIRECT
    /\ pc \in {"sleep", "attempt"}
    /\ failures = 1
    /\ token_requests = 1
    /\ data_requests = 0
    /\ access_token = TokStr("tokA")
    /\ token_expires_at.t = "time"
    /\ token_expires_at.at <= now

\* C22 (as claimed): a failed device-data call leaves the token cache as it
\* was, and when the one token request of a cycle has succeeded and a
\* device-data call has failed, the next attempt made before expires_at
\* sends no token request and uses the cached token: the cycle's token
\* requests stay at one.
C22_DataFailureKeepsToken ==
    [][ /\ (pc = "data_req" /\ failures' = failures + 1) =>
                (access_token' = access_token /\ token_expires_at' = token_expires_at)
        /\ ( /\ mode = MODE_DEYE_DIRECT
             /\ pc = "attempt"
             /\ pc' # "attempt"
             /\ token_requests = 1
             /\ data_requests = invocations
             /\ failures >= 1
             /\ token_expires_at.t = "time"
             /\ now < token_expires_at.at )
            => (token_requests' = 1 /\ token' = access_token) ]_vars

\* C23: in every state of a cloud-direct coordinator, a device_online reading
\* that the Snapshot holds has the value True, also when an item of the
\* payload has a key that normalizes to device_online and also after cycles
\* that ended in a terminal failure; is_on of the device_online entity is
\* never False.
C23_OnlineStaysTrue ==
    (mode = MODE_DEYE_DIRECT /\ has_data) =>
        /\ KeyDeviceOnline \in DOMAIN data => data[KeyDeviceOnline].value = PyBool(TRUE)
        /\ is_on(data, KeyDeviceOnline) # PyBool(FALSE)

\* a cycle has ended in a terminal failure and the Snapshot is still the one
\* converted from the payload whose item "Device Online" has the value False
C23_Witness ==
    /\ mode = MODE_DEYE_DIRECT
    /\ cycle_outcome = "failed"
    /\ has_data
    /\ \E at \in 0..MaxTime :
          data = convert_deye_response(
                    Body("list", <<Device("list", ItemsB), Device("list", ItemsA)>>), at)
    /\ normalize_key(ItemsB[4].key.s) = KeyDeviceOnline
    /\ ItemsB[4].value = PyBool(FALSE)
    /\ is_on(data, KeyDeviceOnline) = PyBool(TRUE)

\* C24 (as claimed): _access_token is None exactly when _token_expires_at is
\* None; both are None until the first token request that succeeds; and once
\* a token is stored _access_token is never None again.
C24_CacheSetTogether ==
    /\ []((access_token = TokNone) <=> (token_expires_at = TimeNone))
    /\ [][ /\ (access_token = TokNone /\ token_expires_at = TimeNone
                /\ <<access_token, token_expires_at>>' # <<access_token, token_expires_at>>)
               => (pc = "token_req" /\ pc' = "data_req")
           /\ access_token # TokNone => access_token' # TokNone ]_vars
====
